---- MODULE Spec2Model ----
(***************************************************************************)
(* simple-db: a JSON file holding named collections of records, with CRUD  *)
(* handlers that read the whole document, change one collection and write  *)
(* the whole document back.  Two variants of the store are modelled:       *)
(* SimpleDB (unnamed/part_000) and AsyncJSONFileBasedDB (src/db.ts).       *)
(* Every handler is cut at its awaits: one step per resumption.            *)
(***************************************************************************)
EXTENDS Integers, Sequences, FiniteSets, TLC

VARIABLES
    db,      \* which class the store is an instance of
    file,    \* the file at the store's path: [exists, text]
    calls,   \* the calls of the current burst of overlapping calls
    writes,  \* the Writer's submissions of the current burst, in order
    last,    \* the call that returned last, until the next call is issued
    prev     \* the call that had returned last when a read-only call was issued
             \* with no other call in flight

vars == <<db, file, calls, writes, last, prev>>

\* ------------------------------------------------------------- bounds
\* create is offered while the collection on file is shorter than this
MaxLen == 2
\* calls issued in one burst without awaiting the earlier ones
MaxBurst == 2

\* ------------------------------------------------------------- data
Variants == {"SimpleDB", "AsyncJSONFileBasedDB"}

\* this.collection, and another collection sharing the document
collection == "users"
OtherCollection == "other"

NoFields == [f \in {} |-> "x"]

\* T | null, T | undefined: the empty sequence is the absent value
None == <<>>
Some(v) == <<v>>
IsSome(m) == m # <<>>
Get(m) == m[1]

\* records handed to create
NewEntities ==
    { [id |-> "1", name |-> "x"],
      [id |-> "2", name |-> "NaN"] }

\* patches handed to update
Patches ==
    { [name |-> "null"], [tag |-> "t"], [id |-> "2"] }

Ids == {"1", "2"}

\* ------------------------------------------------------------- JSON
\* JSON.stringify of one value: NaN is written as null
StringifyValue(v) == IF v = "NaN" THEN "null" ELSE v

\* JSON.stringify of one record: a property holding undefined is left out
StringifyEntity(e) ==
    [f \in {g \in DOMAIN e : e[g] # "undefined"} |-> StringifyValue(e[f])]

StringifyList(l) == [i \in 1..Len(l) |-> StringifyEntity(l[i])]

\* this.stringify(data): the text of a document
stringify(doc) ==
    [kind |-> "json", doc |-> [c \in DOMAIN doc |-> StringifyList(doc[c])]]

\* text that JSON.parse rejects
Garbage == [kind |-> "garbage", doc |-> NoFields]

\* the text null: JSON.parse accepts it and returns null
NullText == [kind |-> "null", doc |-> NoFields]

\* this.parse(text) succeeds
parses(text) == text.kind \in {"json", "null"}

\* this.parse(text)
parse(text) == text.doc

NoFile == [exists |-> FALSE, text |-> Garbage]
FileOf(text) == [exists |-> TRUE, text |-> text]

\* ------------------------------------------------------------- AsyncJSONFile
\* read() without the ENOENT case: a missing file is thrown like any failure
readRethrowsAll(f, ioerr) ==
    IF ~f.exists \/ ioerr \/ ~parses(f.text)
    THEN [st |-> "throw", doc |-> NoFields]
    ELSE IF f.text.kind = "null" THEN [st |-> "null", doc |-> NoFields]
    ELSE [st |-> "ok", doc |-> parse(f.text)]

\* read() with a catch that returns null for every failure
readSwallowsAll(f, ioerr) ==
    IF ~f.exists \/ ioerr \/ ~parses(f.text) \/ f.text.kind = "null"
    THEN [st |-> "null", doc |-> NoFields]
    ELSE [st |-> "ok", doc |-> parse(f.text)]

\* AsyncJSONFile.read(): null on ENOENT, the parsed value otherwise (null for
\* the text null); every other failure of readFile (ioerr) and every failure
\* of parse is thrown
read(f, ioerr) ==
    IF ~f.exists THEN [st |-> "null", doc |-> NoFields]
    ELSE IF ioerr \/ ~parses(f.text) THEN [st |-> "throw", doc |-> NoFields]
    ELSE IF f.text.kind = "null" THEN [st |-> "null", doc |-> NoFields]
    ELSE [st |-> "ok", doc |-> parse(f.text)]

\* AsyncJSONFile.write(data): hands the text to the Writer, which queues it
write(ws, c, doc) ==
    Append(ws, [call |-> c, data |-> stringify(doc), status |-> "queued",
                old |-> NoFile,
                pending |-> {i \in 1..Len(ws) :
                                ws[i].status \in {"queued", "writing"}}])

\* ------------------------------------------------------------- pure parts of the handlers
\* getEntitiesState(): [allEntities, collectionEntities]
getEntitiesState(rd) ==
    [all  |-> IF rd.st = "ok" THEN Some(rd.doc) ELSE None,
     ents |-> IF rd.st = "ok" /\ collection \in DOMAIN rd.doc
              THEN Some(rd.doc[collection]) ELSE None]

\* getCollectionData(): entities[this.collection] ?? null, or null
getCollectionData(rd) ==
    IF rd.st = "ok" /\ collection \in DOMAIN rd.doc
    THEN Some(rd.doc[collection]) ELSE None

\* the value of storage.read()
storageRead(rd) == IF rd.st = "ok" THEN Some(rd.doc) ELSE None

\* { ...a, ...b }
Spread(a, b) ==
    [f \in DOMAIN a \cup DOMAIN b |-> IF f \in DOMAIN b THEN b[f] ELSE a[f]]

\* the document built without the spread of allEntities
WithoutSpread(all, list) == [c \in {collection} |-> list]

\* { ...allEntities, [this.collection]: list }; spreading null adds nothing
WithCollection(all, list) ==
    Spread(IF IsSome(all) THEN Get(all) ELSE NoFields,
           [c \in {collection} |-> list])

\* { [this.collection]: list }
OnlyCollection(list) == [c \in {collection} |-> list]

\* entities.findLastIndex(e => e.id === id): the scan run backwards
findLastIndex(l, id) ==
    LET S == {i \in 1..Len(l) : l[i].id = id}
    IN  IF S = {} THEN 0 ELSE CHOOSE i \in S : \A j \in S : i >= j

\* entities.findIndex(e => e.id === id), counted from 1; 0 stands for -1
findIndex(l, id) ==
    LET S == {i \in 1..Len(l) : l[i].id = id}
    IN  IF S = {} THEN 0 ELSE CHOOSE i \in S : \A j \in S : i <= j

\* the check left out: the handler goes on with index -1
neverNotFound(entityIndex) == FALSE

\* entityIndex === -1
notFound(entityIndex) == entityIndex = 0

\* find with the comparison turned around: e => e.id !== id
findOther(l, id) ==
    LET S == {i \in 1..Len(l) : l[i].id # id}
    IN  IF S = {} THEN None ELSE Some(l[CHOOSE i \in S : \A j \in S : i <= j])

\* entities.find(e => e.id === id)
find(l, id) ==
    IF findIndex(l, id) = 0 THEN None ELSE Some(l[findIndex(l, id)])

\* entities.splice(i): without the count, everything from i on is removed
spliceToEnd(l, i) ==
    IF i = 0 THEN SubSeq(l, 1, Len(l) - 1) ELSE SubSeq(l, 1, i - 1)

\* entities.splice(i, 1); an index of -1 counts from the end of the array
splice(l, i) ==
    IF i = 0 THEN SubSeq(l, 1, Len(l) - 1)
    ELSE SubSeq(l, 1, i - 1) \o SubSeq(l, i + 1, Len(l))

\* entities[i]: undefined outside the array, and spreading undefined adds nothing
elementAt(l, i) == IF i \in 1..Len(l) THEN l[i] ELSE NoFields

\* the record taken out and pushed back at the end instead of assigned in place
setAtEnd(l, i, e) ==
    IF i \in 1..Len(l)
    THEN SubSeq(l, 1, i - 1) \o SubSeq(l, i + 1, Len(l)) \o <<e>>
    ELSE l

\* entities[i] = e; a property -1 is no element and JSON.stringify leaves it out
setAt(l, i, e) == IF i \in 1..Len(l) THEN [l EXCEPT ![i] = e] ELSE l

\* [newEntity, ...collectionEntities]
prependEntity(l, e) == <<e>> \o l

\* [...collectionEntities, newEntity]
appendEntity(l, e) == Append(l, e)

\* SimpleDB.create: newEntities
newEntities(all, ents, e) ==
    WithCollection(all, IF IsSome(ents) THEN appendEntity(Get(ents), e) ELSE <<e>>)

\* AsyncJSONFileBasedDB.create: newEntities
newEntitiesDB(all, ents, e) ==
    IF IsSome(all)
    THEN IF IsSome(ents)
         THEN WithCollection(all, appendEntity(Get(ents), e))
         ELSE WithCollection(all, <<e>>)
    ELSE OnlyCollection(<<e>>)

\* update: { ...entities[entityIndex], ...updatedEntity }
updated(existing, patch) == Spread(existing, patch)

\* deleteEntities with the whole document cleared
deleteEntitiesAll(doc) == NoFields

\* deleteEntities: delete entities[this.collection]
deleteEntities(doc) == [c \in DOMAIN doc \ {collection} |-> doc[c]]

\* initializeDB writing an empty collection instead of the empty document
initialWithCollection == [c \in {collection} |-> <<>>]

\* initializeDB: the document {}
initialDocument == NoFields

\* updatedEntities built from the collection alone, whatever was read
updatedEntitiesAlone(all, ents) == OnlyCollection(ents)

\* AsyncJSONFileBasedDB.update / delete: updatedEntities
updatedEntitiesDB(all, ents) ==
    IF IsSome(all) THEN WithCollection(all, ents) ELSE OnlyCollection(ents)

\* ------------------------------------------------------------- results
Result(tag, recs) == [tag |-> tag, recs |-> recs]
Pending == Result("pending", <<>>)
Threw == Result("error", <<>>)
Undefined == Result("undefined", <<>>)
Null == Result("null", <<>>)
True == Result("true", <<>>)
False == Result("false", <<>>)
Entity(e) == Result("entity", <<e>>)
List(l) == Result("list", l)

\* ------------------------------------------------------------- calls
ReadOps == {"getAll", "getByID"}
WriteOps == {"create", "update", "delete"}

\* a call that was just issued: its first await is a read of the file
NewCall(op, id, data) ==
    [op |-> op, id |-> id, data |-> data, pc |-> "read",
     all |-> None, ents |-> None, ret |-> Pending, res |-> Pending,
     pre |-> file, seen |-> None, nreads |-> 0, nwrites |-> 0, obs |-> None]

NoCall ==
    [op |-> "none", id |-> "", data |-> NoFields, pc |-> "done",
     all |-> None, ents |-> None, ret |-> Pending, res |-> Pending,
     pre |-> NoFile, seen |-> None, nreads |-> 0, nwrites |-> 0, obs |-> None]

Quiet == \A i \in 1..Len(calls) : calls[i].pc = "done"

\* the collection as the file holds it, for bounding create
StoredLen(f) ==
    IF f.exists /\ parses(f.text) /\ collection \in DOMAIN parse(f.text)
    THEN Len(parse(f.text)[collection]) ELSE 0

\* the caller issues a call after awaiting the one before: a new burst
Call(op, id, data) ==
    /\ Quiet
    /\ op = "create" => StoredLen(file) < MaxLen
    /\ op = "deleteCollection" => db = "SimpleDB"
    /\ calls' = <<NewCall(op, id, data)>>
    /\ writes' = <<>>
    /\ last' = NoCall
    /\ prev' = IF op \in ReadOps THEN last ELSE NoCall
    /\ UNCHANGED <<db, file>>

\* the caller issues a call without awaiting the earlier ones of the burst
CallConcurrently(op, id, data) ==
    /\ Len(calls) < MaxBurst
    /\ calls' = Append(calls, NewCall(op, id, data))
    /\ last' = NoCall
    /\ prev' = NoCall
    /\ UNCHANGED <<db, file, writes>>

\* the call's record once a read of the file has resolved
AfterRead(c) ==
    LET w == {i \in 1..Len(writes) : writes[i].status = "writing"}
    IN  [calls[c] EXCEPT
            !.nreads = @ + 1,
            !.seen = Append(@, file),
            !.obs = IF w = {} THEN @
                    ELSE LET i == CHOOSE j \in w : TRUE
                         IN  Some([got |-> file, old |-> writes[i].old,
                                   new |-> FileOf(writes[i].data)])]

\* the call goes on with record r; when it has returned, it is remembered
Resume(c, r) ==
    /\ calls' = [calls EXCEPT ![c] = r]
    /\ last' = IF r.pc = "done" THEN r ELSE last
    /\ UNCHANGED prev

\* the handler returns res (or throws, res = Threw) without writing
Return(c, r, res) ==
    /\ Resume(c, [r EXCEPT !.pc = "done", !.res = res])
    /\ UNCHANGED <<db, file, writes>>

\* the handler awaits another read
AwaitRead(c, r) ==
    /\ Resume(c, [r EXCEPT !.pc = "read2"])
    /\ UNCHANGED <<db, file, writes>>

\* the handler calls storage.write(doc) and awaits it; ret is what it returns then
AwaitWrite(c, r, doc, ret) ==
    /\ Resume(c, [r EXCEPT !.pc = "write", !.ret = ret, !.nwrites = @ + 1])
    /\ writes' = write(writes, c, doc)
    /\ UNCHANGED <<db, file>>

At(c, op, pcs) ==
    /\ c \in 1..Len(calls)
    /\ calls[c].op = op
    /\ calls[c].pc \in pcs

\* ------------------------------------------------------------- handlers
\* create(newEntity), resumed when a read of the file resolves
create(c, ioerr) ==
    /\ At(c, "create", {"read", "read2"})
    /\ ioerr => file.exists
    /\ LET r == AfterRead(c)
           rd == read(file, ioerr)
           st == getEntitiesState(rd)
       IN  IF rd.st = "throw" THEN Return(c, r, Threw)
           ELSE IF db = "SimpleDB"
           THEN AwaitWrite(c, r, newEntities(st.all, st.ents, r.data),
                           Entity(r.data))
           ELSE IF r.pc = "read"
           THEN AwaitRead(c, [r EXCEPT !.all = storageRead(rd)])
           ELSE AwaitWrite(c, r,
                           newEntitiesDB(r.all, getCollectionData(rd), r.data),
                           Entity(r.data))

\* getAll() that writes an empty collection when it finds none
getAllCreating(c, ioerr) ==
    /\ At(c, "getAll", {"read"})
    /\ ioerr => file.exists
    /\ LET r == AfterRead(c)
           rd == read(file, ioerr)
           entities == getCollectionData(rd)
       IN  IF rd.st = "throw" THEN Return(c, r, Threw)
           ELSE IF IsSome(entities) THEN Return(c, r, List(Get(entities)))
           ELSE AwaitWrite(c, r, WithCollection(storageRead(rd), <<>>), List(<<>>))

\* getAll(): entities ?? []
getAll(c, ioerr) ==
    /\ At(c, "getAll", {"read"})
    /\ ioerr => file.exists
    /\ LET r == AfterRead(c)
           rd == read(file, ioerr)
           entities == IF db = "SimpleDB" THEN getEntitiesState(rd).ents
                       ELSE getCollectionData(rd)
       IN  IF rd.st = "throw" THEN Return(c, r, Threw)
           ELSE Return(c, r, List(IF IsSome(entities) THEN Get(entities) ELSE <<>>))

\* what getByID returns for the entities it read
getByIDResult(entities, id) ==
    IF IsSome(entities) /\ IsSome(find(Get(entities), id))
    THEN Entity(Get(find(Get(entities), id)))
    ELSE Undefined

\* getByID(id)
getByID(c, ioerr) ==
    /\ At(c, "getByID", {"read"})
    /\ ioerr => file.exists
    /\ LET r == AfterRead(c)
           rd == read(file, ioerr)
           entities == IF db = "SimpleDB" THEN getEntitiesState(rd).ents
                       ELSE getCollectionData(rd)
       IN  IF rd.st = "throw" THEN Return(c, r, Threw)
           ELSE Return(c, r, getByIDResult(entities, r.id))

\* update(id, updatedEntity)
update(c, ioerr) ==
    /\ At(c, "update", {"read", "read2"})
    /\ ioerr => file.exists
    /\ LET r == AfterRead(c)
           rd == read(file, ioerr)
           st == getEntitiesState(rd)
           entities == IF db = "SimpleDB" THEN st.ents ELSE getCollectionData(rd)
           entityIndex == findIndex(Get(entities), r.id)
           new == updated(elementAt(Get(entities), entityIndex), r.data)
           list == setAt(Get(entities), entityIndex, new)
       IN  IF rd.st = "throw" THEN Return(c, r, Threw)
           ELSE IF r.pc = "read"
           THEN IF ~IsSome(entities) THEN Return(c, r, Null)
                ELSE IF notFound(entityIndex) THEN Return(c, r, Null)
                ELSE IF db = "SimpleDB"
                THEN AwaitWrite(c, r, WithCollection(st.all, list), Entity(new))
                ELSE AwaitRead(c, [r EXCEPT !.ents = Some(list), !.ret = Entity(new)])
           ELSE AwaitWrite(c, r,
                           updatedEntitiesDB(storageRead(rd), Get(r.ents)), r.ret)

\* delete(id)
delete(c, ioerr) ==
    /\ At(c, "delete", {"read", "read2"})
    /\ ioerr => file.exists
    /\ LET r == AfterRead(c)
           rd == read(file, ioerr)
           st == getEntitiesState(rd)
           entities == IF db = "SimpleDB" THEN st.ents ELSE getCollectionData(rd)
           entityIndex == findIndex(Get(entities), r.id)
           list == splice(Get(entities), entityIndex)
       IN  IF rd.st = "throw" THEN Return(c, r, Threw)
           ELSE IF r.pc = "read"
           THEN IF ~IsSome(entities) THEN Return(c, r, False)
                ELSE IF notFound(entityIndex) THEN Return(c, r, False)
                ELSE IF db = "SimpleDB"
                THEN AwaitWrite(c, r, WithCollection(st.all, list), True)
                ELSE AwaitRead(c, [r EXCEPT !.ents = Some(list), !.ret = True])
           ELSE AwaitWrite(c, r,
                           updatedEntitiesDB(storageRead(rd), Get(r.ents)), r.ret)

\* SimpleDB.deleteCollection(), with getEntities and deleteEntities
deleteCollection(c, ioerr) ==
    /\ At(c, "deleteCollection", {"read"})
    /\ ioerr => file.exists
    /\ LET r == AfterRead(c)
           rd == read(file, ioerr)
       IN  IF rd.st = "throw" THEN Return(c, r, Threw)
           ELSE IF rd.st = "ok"
           THEN AwaitWrite(c, r, deleteEntities(rd.doc), True)
           ELSE Return(c, r, False)

\* AsyncJSONFileBasedDB.initializeDB(), awaited: it reads nothing and writes {}
initializeDB ==
    /\ Quiet
    /\ db = "AsyncJSONFileBasedDB"
    /\ calls' = <<[NewCall("initializeDB", "", NoFields) EXCEPT
                      !.pc = "write", !.ret = Undefined, !.nwrites = 1]>>
    /\ writes' = write(<<>>, 1, initialDocument)
    /\ last' = NoCall
    /\ prev' = NoCall
    /\ UNCHANGED <<db, file>>

\* ------------------------------------------------------------- Writer
\* The Writer behind AsyncJSONFile.write, as section 4.1 of the specification
\* describes it: one write at a time, in submission order, each written to a
\* temporary file that is renamed onto the target.

\* text cut short by a write that is not atomic
Truncated == [kind |-> "partial", doc |-> NoFields]

\* a Writer whose lock is never released once a write has begun
LockedForever(ws) == \E i \in 1..Len(ws) : ws[i].status # "queued"

\* a write is in progress: the Writer is locked
Locked(ws) == \E i \in 1..Len(ws) : ws[i].status = "writing"

\* the queued write that was submitted last
NewestWrite(ws) ==
    CHOOSE i \in 1..Len(ws) :
        /\ ws[i].status = "queued"
        /\ \A j \in 1..Len(ws) : ws[j].status = "queued" => j <= i

\* the queued write the Writer takes next: the one submitted first
NextWrite(ws) ==
    CHOOSE i \in 1..Len(ws) :
        /\ ws[i].status = "queued"
        /\ \A j \in 1..Len(ws) : ws[j].status = "queued" => i <= j

\* a write in place: the target is cut short until the write completes
TargetInPlace(f, data) == FileOf(Truncated)

\* the target file while the temporary file is being written
TargetWhileWriting(f, data) == f

\* the target file after a write that failed
TargetAfterFailure(f, data) == f

\* the Writer starts the next queued write
WriterBegin ==
    /\ ~Locked(writes)
    /\ \E i \in 1..Len(writes) : writes[i].status = "queued"
    /\ LET i == NextWrite(writes)
       IN  /\ writes' = [writes EXCEPT ![i].status = "writing", ![i].old = file]
           /\ file' = TargetWhileWriting(file, writes[i].data)
    /\ UNCHANGED <<db, calls, last, prev>>

\* the rename succeeds: the file is the new text and the caller's await resolves
WriterCommit(i) ==
    /\ i \in 1..Len(writes)
    /\ writes[i].status = "writing"
    /\ writes' = [writes EXCEPT ![i].status = "ok"]
    /\ file' = FileOf(writes[i].data)
    /\ LET c == writes[i].call
       IN  Resume(c, [calls[c] EXCEPT !.pc = "done", !.res = calls[c].ret])
    /\ UNCHANGED db

\* the write fails: the caller's await rejects
WriterFail(i) ==
    /\ i \in 1..Len(writes)
    /\ writes[i].status = "writing"
    /\ writes' = [writes EXCEPT ![i].status = "failed"]
    /\ file' = TargetAfterFailure(file, writes[i].data)
    /\ LET c == writes[i].call
       IN  Resume(c, [calls[c] EXCEPT !.pc = "done", !.res = Threw])
    /\ UNCHANGED db

\* ------------------------------------------------------------- specifications
EntityA == [id |-> "1", name |-> "x"]
EntityB == [id |-> "2", name |-> "null"]
EntityC == [id |-> "1", name |-> "null", tag |-> "t"]
EntityO == [id |-> "9", name |-> "o"]

InitDocs ==
    { NoFields,
      [c \in {OtherCollection} |-> <<EntityO>>],
      [c \in {collection, OtherCollection} |->
          IF c = collection THEN <<EntityA, EntityB, EntityC>> ELSE <<EntityO>>] }

InitFiles == {NoFile, FileOf(Garbage), FileOf(NullText)} \cup {FileOf(stringify(d)) : d \in InitDocs}

Requests ==
    {<<"create", e.id, e>> : e \in NewEntities}
    \cup {<<"getAll", "", NoFields>>}
    \cup {<<"getByID", i, NoFields>> : i \in Ids}
    \cup {<<"update", i, p>> : i \in Ids, p \in Patches}
    \cup {<<"delete", i, NoFields>> : i \in Ids}
    \cup {<<"deleteCollection", "", NoFields>>}

Init ==
    /\ db \in Variants
    /\ file \in InitFiles
    /\ calls = <<>>
    /\ writes = <<>>
    /\ last = NoCall
    /\ prev = NoCall

\* every call is awaited before the next one is issued
Next ==
    \/ \E q \in Requests : Call(q[1], q[2], q[3])
    \/ \E c \in 1..Len(calls), ioerr \in BOOLEAN : create(c, ioerr)
    \/ \E c \in 1..Len(calls), ioerr \in BOOLEAN : getAll(c, ioerr)
    \/ \E c \in 1..Len(calls), ioerr \in BOOLEAN : getByID(c, ioerr)
    \/ \E c \in 1..Len(calls), ioerr \in BOOLEAN : update(c, ioerr)
    \/ \E c \in 1..Len(calls), ioerr \in BOOLEAN : delete(c, ioerr)
    \/ \E c \in 1..Len(calls), ioerr \in BOOLEAN : deleteCollection(c, ioerr)
    \/ initializeDB
    \/ WriterBegin
    \/ \E i \in 1..Len(writes) : WriterCommit(i)
    \/ \E i \in 1..Len(writes) : WriterFail(i)

Spec == Init /\ [][Next]_vars

\* calls issued without awaiting the earlier ones
ConcRequests ==
    { <<"create", "1", [id |-> "1", name |-> "x"]>>,
      <<"create", "2", [id |-> "2", name |-> "NaN"]>>,
      <<"getAll", "", NoFields>>,
      <<"getByID", "1", NoFields>>,
      <<"update", "1", [tag |-> "t"]>>,
      <<"delete", "1", NoFields>> }

ConcInit ==
    /\ db \in Variants
    /\ file \in {NoFile, FileOf(stringify([c \in {collection} |-> <<EntityC>>]))}
    /\ calls = <<>>
    /\ writes = <<>>
    /\ last = NoCall
    /\ prev = NoCall

\* one burst of up to MaxBurst calls, issued at any time
ConcNext ==
    \/ \E q \in ConcRequests : CallConcurrently(q[1], q[2], q[3])
    \/ \E c \in 1..Len(calls), ioerr \in BOOLEAN : create(c, ioerr)
    \/ \E c \in 1..Len(calls), ioerr \in BOOLEAN : getAll(c, ioerr)
    \/ \E c \in 1..Len(calls), ioerr \in BOOLEAN : getByID(c, ioerr)
    \/ \E c \in 1..Len(calls), ioerr \in BOOLEAN : update(c, ioerr)
    \/ \E c \in 1..Len(calls), ioerr \in BOOLEAN : delete(c, ioerr)
    \/ WriterBegin
    \/ \E i \in 1..Len(writes) : WriterCommit(i)
    \/ \E i \in 1..Len(writes) : WriterFail(i)

ConcSpec == ConcInit /\ [][ConcNext]_vars

\* the read that call c awaits resolves, with a value or with a failure, and
\* the handler runs up to its next await
ReadResolves(c) ==
    \E ioerr \in BOOLEAN :
        \/ create(c, ioerr)
        \/ getAll(c, ioerr)
        \/ getByID(c, ioerr)
        \/ update(c, ioerr)
        \/ delete(c, ioerr)

\* the write in progress completes, with success or with a failure
WriteResolves == \E i \in 1..Len(writes) : WriterCommit(i) \/ WriterFail(i)

\* every read and every write that is awaited eventually completes, and an
\* idle Writer with a queued write eventually starts it; the caller need not
\* issue any further call
Fairness ==
    /\ \A c \in 1..MaxBurst : WF_vars(ReadResolves(c))
    /\ WF_vars(WriterBegin)
    /\ WF_vars(WriteResolves)

LiveSpec == ConcSpec /\ Fairness

\* ------------------------------------------------------------- claims
\* the records of the store's collection in file f; none when f holds no such list
StoredEntities(f) ==
    IF f.exists /\ f.text.kind = "json" /\ collection \in DOMAIN f.text.doc
    THEN f.text.doc[collection] ELSE <<>>

\* the positions of the records of l whose id is id
Matches(l, id) == {i \in 1..Len(l) : l[i].id = id}

\* the least element of a non-empty set of positions
First(S) == CHOOSE i \in S : \A j \in S : i <= j

\* l without the record at position i
Without(l, i) == [j \in 1..(Len(l) - 1) |-> IF j < i THEN l[j] ELSE l[j + 1]]

\* every field value of e is a value JSON text can hold
JsonRepresentable(e) == \A f \in DOMAIN e : e[f] \notin {"NaN", "undefined"}

\* `last` is a read that returned, issued right after `prev` returned
ReadAfter(op) ==
    /\ last.op \in ReadOps
    /\ last.res.tag # "error"
    /\ prev.op = op
    /\ prev.res.tag \notin {"error", "pending"}

\* C1 as stated: getByID(r.id) right after create(r) returns a record deeply
\* equal to r, for every record r and every document.
C1_Original ==
    (ReadAfter("create") /\ last.op = "getByID" /\ last.id = prev.data.id)
        => last.res = [tag |-> "entity", recs |-> <<prev.data>>]

\* C1 amended: getByID(r.id) right after create(r) returns a record deeply
\* equal to r when every field value of r is JSON-representable and no record
\* stored before the create carries r.id.
C1_CreateThenGetByID ==
    (/\ ReadAfter("create") /\ last.op = "getByID" /\ last.id = prev.data.id
     /\ JsonRepresentable(prev.data)
     /\ Matches(StoredEntities(prev.pre), prev.data.id) = {})
        => last.res = [tag |-> "entity", recs |-> <<prev.data>>]

C1_Witness ==
    /\ ReadAfter("create") /\ last.op = "getByID" /\ last.id = prev.data.id
    /\ JsonRepresentable(prev.data)
    /\ Matches(StoredEntities(prev.pre), prev.data.id) = {}
    /\ StoredEntities(prev.pre) # <<>>
    /\ last.res = [tag |-> "entity", recs |-> <<prev.data>>]

\* C2 as stated: after delete(id) returned true, getByID(id) returns undefined
\* and getAll() is one shorter than before, the other records in their order.
C2_Original ==
    (ReadAfter("delete") /\ prev.res.tag = "true")
        => LET l == StoredEntities(prev.pre)
           IN  /\ (last.op = "getByID" /\ last.id = prev.id)
                     => last.res.tag = "undefined"
               /\ last.op = "getAll"
                     => /\ Len(last.res.recs) = Len(l) - 1
                        /\ \E i \in 1..Len(l) : last.res.recs = Without(l, i)

\* C2 amended: after delete(id) returned true, getAll() is the former list
\* without its first record carrying id, and getByID(id) returns the next
\* record carrying id, which is undefined when only one record carried it.
C2_DeleteThenRead ==
    (ReadAfter("delete") /\ prev.res.tag = "true")
        => LET l == StoredEntities(prev.pre)
               m == Matches(l, prev.id)
           IN  /\ m # {}
               /\ (last.op = "getByID" /\ last.id = prev.id)
                     => IF Cardinality(m) = 1
                        THEN last.res.tag = "undefined"
                        ELSE last.res = [tag |-> "entity",
                                         recs |-> <<l[First(m \ {First(m)})]>>]
               /\ last.op = "getAll"
                     => /\ Len(last.res.recs) = Len(l) - 1
                        /\ last.res.recs = Without(l, First(m))

C2_Witness ==
    /\ ReadAfter("delete") /\ prev.res.tag = "true"
    /\ last.op = "getAll"
    /\ Len(last.res.recs) >= 2
    /\ First(Matches(StoredEntities(prev.pre), prev.id)) = 2

\* the record update(id, patch) is to produce: the first record carrying id,
\* with the fields of the patch overwritten and the others kept
Merged(l, id, patch) ==
    [f \in DOMAIN l[First(Matches(l, id))] \cup DOMAIN patch |->
        IF f \in DOMAIN patch THEN patch[f] ELSE l[First(Matches(l, id))][f]]

\* C3 as stated: update(id, patch) that finds a record writes and returns the
\* shallow merge, at the same index, and getByID(id) then returns that record.
C3_Original ==
    /\ (last.op = "update" /\ last.res.tag = "entity")
          => LET l == StoredEntities(last.pre)
             IN  /\ Matches(l, last.id) # {}
                 /\ last.res.recs = <<Merged(l, last.id, last.data)>>
                 /\ StoredEntities(file) =
                       [l EXCEPT ![First(Matches(l, last.id))] =
                                     Merged(l, last.id, last.data)]
    /\ (ReadAfter("update") /\ prev.res.tag = "entity"
        /\ last.op = "getByID" /\ last.id = prev.id)
          => last.res = prev.res

\* C4 as stated: the record update(id, patch) stores and returns has id equal
\* to the id argument, whatever the patch holds.
C4_Original ==
    (last.op = "update" /\ last.res.tag = "entity")
        => LET l == StoredEntities(last.pre)
               i == First(Matches(l, last.id))
           IN  /\ last.res.recs[1].id = last.id
               /\ StoredEntities(file)[i].id = last.id

\* C8: a create, update or delete that failed left the file as it was when the
\* call was issued.
C8_FailedCallKeepsFile ==
    (last.op \in WriteOps /\ last.res.tag = "error") => file = last.pre

C8_Witness ==
    /\ last.op \in WriteOps /\ last.res.tag = "error"
    /\ last.nwrites = 1
    /\ file = last.pre
    /\ file.exists

\* C9: with no file, getAll returns the empty list and getByID undefined;
\* neither throws.
C9_ReadsOfMissingFile ==
    (last.op \in ReadOps /\ ~last.pre.exists)
        => /\ last.op = "getAll" => last.res = [tag |-> "list", recs |-> <<>>]
           /\ last.op = "getByID" => last.res = [tag |-> "undefined", recs |-> <<>>]

C9_Witness ==
    /\ last.op = "getByID" /\ ~last.pre.exists
    /\ last.res.tag = "undefined"

\* C10: update and delete that find no file, no collection or no record with
\* the id return null and false, issue no write and leave the file, also its
\* absence, as it was.
C10_NotFoundWritesNothing ==
    (/\ last.op \in {"update", "delete"}
     /\ last.res.tag # "error"
     /\ \/ ~last.pre.exists
        \/ /\ last.pre.text.kind = "json"
           /\ \/ collection \notin DOMAIN last.pre.text.doc
              \/ Matches(StoredEntities(last.pre), last.id) = {})
        => /\ last.res.tag = (IF last.op = "update" THEN "null" ELSE "false")
           /\ last.nwrites = 0
           /\ file = last.pre

C10_Witness ==
    /\ last.op = "delete" /\ last.res.tag = "false"
    /\ last.pre.exists /\ last.pre.text.kind = "json"
    /\ collection \notin DOMAIN last.pre.text.doc
    /\ file = last.pre

\* the positions of the writes that have not completed
Incomplete == {i \in 1..Len(writes) : writes[i].status \in {"queued", "writing"}}

\* C5: of the writes submitted to one store at most one is in progress, a
\* write begins only when every write submitted before it has completed, and
\* once all have resolved the file holds the text submitted last.
C5_WritesInOrder ==
    /\ Cardinality({i \in 1..Len(writes) : writes[i].status = "writing"}) <= 1
    /\ \A i, j \in 1..Len(writes) :
          (i < j /\ writes[j].status # "queued")
              => writes[i].status \in {"ok", "failed"}
    /\ (writes # <<>> /\ \A i \in 1..Len(writes) : writes[i].status = "ok")
          => file = [exists |-> TRUE, text |-> writes[Len(writes)].data]

C5_Witness ==
    /\ Len(writes) >= 2
    /\ \A i \in 1..Len(writes) : writes[i].status = "ok"
    /\ 1 \in writes[2].pending
    /\ writes[1].data # writes[2].data
    /\ file = [exists |-> TRUE, text |-> writes[2].data]

\* C6: a read that resolves while a write is in progress got either the file
\* as it was when that write began or the file that write is producing.
C6_ReadDuringWrite ==
    \A c \in 1..Len(calls) :
        calls[c].obs # <<>>
            => calls[c].obs[1].got \in {calls[c].obs[1].old, calls[c].obs[1].new}

C6_Witness ==
    \E c \in 1..Len(calls) :
        /\ calls[c].obs # <<>>
        /\ calls[c].op = "getAll"
        /\ calls[c].res.tag = "list"
        /\ calls[c].obs[1].old # calls[c].obs[1].new
        /\ calls[c].obs[1].got = calls[c].obs[1].old

\* the creates behind writes i and j read the same document in all their
\* reads, and both writes were applied, j's after i's and last of all
Raced(i, j) ==
    /\ i < j
    /\ \A k \in 1..Len(calls[writes[i].call].seen) :
          \A n \in 1..Len(calls[writes[j].call].seen) :
              calls[writes[i].call].seen[k] = calls[writes[j].call].seen[n]
    /\ calls[writes[i].call].op = "create"
    /\ calls[writes[j].call].op = "create"
    /\ calls[writes[i].call].res.tag = "entity"
    /\ calls[writes[j].call].res.tag = "entity"
    /\ j = Len(writes)
    /\ Incomplete = {}

\* C7: when two creates race (A reads, B reads the same document, A's write
\* is applied, then B's), both return their record and the collection on file
\* is what they read plus B's record: A's record is lost.
C7_LostUpdate ==
    \A i, j \in 1..Len(writes) :
        Raced(i, j)
            => LET b == calls[writes[j].call]
                   snapshot == StoredEntities(b.seen[1])
               IN  /\ StoredEntities(file) =
                         snapshot \o <<[f \in {g \in DOMAIN b.data : b.data[g] # "undefined"} |->
                                          IF b.data[f] = "NaN" THEN "null" ELSE b.data[f]]>>
                   /\ Len(StoredEntities(file)) = Len(snapshot) + 1

C7_Witness ==
    \E i, j \in 1..Len(writes) :
        /\ Raced(i, j)
        /\ calls[writes[i].call].data.id = "1"
        /\ calls[writes[j].call].data.id = "2"
        /\ Matches(StoredEntities(file), "2") # {}
        /\ \A k \in 1..Len(StoredEntities(file)) :
              StoredEntities(file)[k] # calls[writes[i].call].data

\* the call failed although the file was absent or held valid JSON: its read
\* or its write failed for a reason outside the store
FailedOutside(call) ==
    call.res.tag = "error" /\ (call.pre.exists => parses(call.pre.text))

\* C11 as stated: deleteCollection returns false without writing when there is
\* no file, and true whenever the file exists, the document written then
\* lacking the collection and keeping every other collection as it was.
C11_Original ==
    (last.op = "deleteCollection" /\ ~FailedOutside(last))
        => IF ~last.pre.exists
           THEN last.res.tag = "false" /\ last.nwrites = 0 /\ file = last.pre
           ELSE /\ last.res.tag = "true"
                /\ file.exists /\ file.text.kind = "json"
                /\ DOMAIN file.text.doc = DOMAIN last.pre.text.doc \ {collection}
                /\ \A c \in DOMAIN file.text.doc :
                      file.text.doc[c] = last.pre.text.doc[c]

\* C11 amended: deleteCollection returns false without writing when there is
\* no file or the file holds null, throws without writing when the file is
\* malformed, and returns true whenever the file holds a document, also one
\* without the collection; the document written then lacks the collection and
\* keeps every other collection as it was.
C11_DeleteCollection ==
    (last.op = "deleteCollection" /\ ~FailedOutside(last))
        => IF ~last.pre.exists \/ last.pre.text.kind = "null"
           THEN last.res.tag = "false" /\ last.nwrites = 0 /\ file = last.pre
           ELSE IF last.pre.text.kind # "json"
           THEN last.res.tag = "error" /\ last.nwrites = 0 /\ file = last.pre
           ELSE /\ last.res.tag = "true"
                /\ last.nwrites = 1
                /\ file.exists /\ file.text.kind = "json"
                /\ DOMAIN file.text.doc = DOMAIN last.pre.text.doc \ {collection}
                /\ \A c \in DOMAIN file.text.doc :
                      file.text.doc[c] = last.pre.text.doc[c]

C11_Witness ==
    /\ last.op = "deleteCollection" /\ last.res.tag = "true"
    /\ last.pre.exists /\ last.pre.text.kind = "json"
    /\ collection \notin DOMAIN last.pre.text.doc
    /\ OtherCollection \in DOMAIN file.text.doc
    /\ file.text.doc[OtherCollection] # <<>>

\* C12 as stated: every create, update and delete call performs exactly one
\* read of the file and, when it proceeds to mutate, exactly one write, in
\* both variants.
C12_Original ==
    (last.op \in WriteOps /\ last.res.tag # "error")
        => /\ last.nreads = 1
           /\ last.nwrites = IF last.res.tag \in {"entity", "true"} THEN 1 ELSE 0

\* a create, update or delete that mutated and returned
Mutated(call) ==
    /\ call.op \in WriteOps
    /\ call.res.tag \in {"entity", "true"}

\* whether list holds, in insertion order, what the call leaves of before:
\* create adds one record with the given id after all others, update keeps the
\* length and every other record at its index, delete takes out the first
\* record with the id and closes the gap
InOrder(call, before, list) ==
    LET i == First(Matches(before, call.id))
    IN  CASE call.op = "create" ->
                /\ Len(list) = Len(before) + 1
                /\ SubSeq(list, 1, Len(before)) = before
                /\ list[Len(list)] = StringifyEntity(call.data)
          [] call.op = "update" ->
                /\ Len(list) = Len(before)
                /\ \A j \in 1..Len(before) : j # i => list[j] = before[j]
                /\ list[i] = StringifyEntity(Merged(before, call.id, call.data))
          [] call.op = "delete" ->
                list = Without(before, i)

\* C13: an awaited create places the new record last, an awaited update leaves
\* every record at its index, an awaited delete removes exactly one record
\* without reordering the others, and a getAll that follows returns the records
\* in that order.
C13_InsertionOrder ==
    /\ Mutated(last)
          => InOrder(last, StoredEntities(last.pre), StoredEntities(file))
    /\ (ReadAfter(prev.op) /\ Mutated(prev) /\ last.op = "getAll")
          => /\ last.res.tag = "list"
             /\ InOrder(prev, StoredEntities(prev.pre), last.res.recs)

C13_Witness ==
    /\ ReadAfter("update") /\ Mutated(prev) /\ last.op = "getAll"
    /\ Len(last.res.recs) = 3
    /\ First(Matches(StoredEntities(prev.pre), prev.id)) = 1
    /\ last.res.recs[1] # StoredEntities(prev.pre)[1]
    /\ last.res.recs[2] = StoredEntities(prev.pre)[2]

\* C14: create makes no uniqueness check, so a record created with an id the
\* collection already holds is appended and both coexist; getByID, update and
\* delete with an id that several records carry act on the first of them in
\* collection order and leave the later ones untouched.
C14_FirstMatchOnly ==
    LET l == StoredEntities(last.pre)
        now == StoredEntities(file)
        S == Matches(l, last.id)
    IN  /\ (last.op = "create" /\ Mutated(last) /\ Matches(l, last.data.id) # {})
              => /\ SubSeq(now, 1, Len(l)) = l
                 /\ Matches(now, last.data.id)
                       = Matches(l, last.data.id) \cup {Len(l) + 1}
        /\ (last.op = "getByID" /\ last.res.tag # "error" /\ Cardinality(S) >= 2)
              => last.res = [tag |-> "entity", recs |-> <<l[First(S)]>>]
        /\ (last.op = "update" /\ last.res.tag # "error" /\ Cardinality(S) >= 2)
              => /\ last.res.tag = "entity"
                 /\ Len(now) = Len(l)
                 /\ now[First(S)] = StringifyEntity(Merged(l, last.id, last.data))
                 /\ \A j \in 1..Len(l) : j # First(S) => now[j] = l[j]
        /\ (last.op = "delete" /\ last.res.tag # "error" /\ Cardinality(S) >= 2)
              => /\ last.res.tag = "true"
                 /\ now = Without(l, First(S))

C14_Witness ==
    /\ ReadAfter("create") /\ Mutated(prev)
    /\ Matches(StoredEntities(prev.pre), prev.data.id) # {}
    /\ last.op = "getByID" /\ last.id = prev.data.id
    /\ last.res.tag = "entity"
    /\ last.res.recs[1] = StoredEntities(prev.pre)[1]
    /\ last.res.recs[1] # StoredEntities(file)[2]
    /\ StoredEntities(file)[2].id = last.id

\* the document a file holds; the empty document when it holds none
DocumentOf(f) ==
    IF f.exists /\ f.text.kind = "json" THEN f.text.doc ELSE NoFields

\* C15: an awaited create, update or delete of a store for one collection
\* changes only that collection: every other collection of the document holds
\* the same records in the same order after the call as before it.
C15_OtherCollectionsKept ==
    Mutated(last)
        => /\ DOMAIN DocumentOf(file) \ {collection}
                 = DOMAIN DocumentOf(last.pre) \ {collection}
           /\ \A c \in DOMAIN DocumentOf(last.pre) \ {collection} :
                 DocumentOf(file)[c] = DocumentOf(last.pre)[c]

C15_Witness ==
    /\ Mutated(last)
    /\ OtherCollection \in DOMAIN DocumentOf(last.pre)
    /\ DocumentOf(last.pre)[OtherCollection] # <<>>
    /\ DocumentOf(file)[OtherCollection] = DocumentOf(last.pre)[OtherCollection]
    /\ StoredEntities(file) # StoredEntities(last.pre)

\* C16: getAll and getByID are pure reads. In every reachable state a getAll
\* or getByID call has issued no write, and when it has returned the file is as
\* it was when the call was issued, also when there was none; the file changes,
\* and so comes to exist, only when a write of another operation commits.
C16_PureReads ==
    /\ [](/\ \A i \in 1..Len(calls) :
                calls[i].op \in ReadOps
                    => /\ calls[i].nwrites = 0
                       /\ \A w \in 1..Len(writes) : writes[w].call # i
          /\ last.op \in ReadOps => (last.nwrites = 0 /\ file = last.pre))
    /\ [][file' # file
            => \E w \in 1..Len(writes) :
                  /\ writes[w].status = "writing"
                  /\ writes'[w].status = "ok"
                  /\ calls[writes[w].call].op \notin ReadOps
                  /\ file' = FileOf(writes[w].data)]_vars

C16_Witness ==
    /\ last.op = "getAll" /\ last.res = [tag |-> "list", recs |-> <<>>]
    /\ ~last.pre.exists /\ ~file.exists
    /\ last.nreads = 1 /\ writes = <<>>

\* the operations of C17
CrudOps == ReadOps \cup WriteOps \cup {"deleteCollection"}

\* C17: when the file exists and its content is malformed, create, getAll,
\* getByID, update, delete and deleteCollection fail with the error of the
\* parse; none of them takes the content for an empty document, none issues a
\* write, and the malformed file is left as it is.
C17_MalformedFails ==
    /\ (last.op \in CrudOps /\ last.pre = FileOf(Garbage))
          => /\ last.res.tag = "error"
             /\ last.nreads = 1
             /\ last.nwrites = 0
             /\ file = FileOf(Garbage)
    /\ \A i \in 1..Len(calls) :
          (calls[i].op \in CrudOps /\ calls[i].pre = FileOf(Garbage))
              => /\ calls[i].nwrites = 0
                 /\ writes = <<>>
                 /\ file = FileOf(Garbage)

C17_Witness ==
    /\ db = "SimpleDB"
    /\ last.op = "update" /\ last.pre = FileOf(Garbage)
    /\ last.res.tag = "error" /\ last.nreads = 1
    /\ file = FileOf(Garbage)

\* C18: provided every file read and every file write eventually completes,
\* every call that was issued, alone or together with others, eventually
\* returns a result or fails with an error; a write submitted while another
\* write of the store is in progress is begun and completed as well.
C18_CallsComplete ==
    /\ \A c \in 1..MaxBurst :
          (c <= Len(calls)) ~> (c <= Len(calls) /\ calls[c].pc = "done"
                                   /\ calls[c].res.tag # "pending")
    /\ \A w \in 1..MaxBurst :
          (w <= Len(writes)) ~> (w <= Len(writes)
                                    /\ writes[w].status \in {"ok", "failed"})

C18_Witness ==
    /\ Len(calls) = MaxBurst
    /\ \A c \in 1..Len(calls) : calls[c].pc = "done" /\ calls[c].op \in WriteOps
    /\ Len(writes) = MaxBurst
    /\ 1 \in writes[2].pending
    /\ writes[1].status = "failed"
    /\ writes[2].status = "ok"
    /\ calls[writes[2].call].res.tag = "entity"

\* SimpleDB's create, getAll, getByID, update and delete run to completion on
\* file f with no other call and no failure of the file system: the result
\* returned and the file left behind
SimpleDBOutcome(f, op, id, data) ==
    LET rd == read(f, FALSE)
        st == getEntitiesState(rd)
        entityIndex == findIndex(Get(st.ents), id)
        new == updated(elementAt(Get(st.ents), entityIndex), data)
        written(doc) == FileOf(stringify(doc))
    IN  IF rd.st = "throw" THEN [res |-> Threw, file |-> f]
        ELSE CASE op = "create" ->
                    [res |-> Entity(data),
                     file |-> written(newEntities(st.all, st.ents, data))]
               [] op = "getAll" ->
                    [res |-> List(IF IsSome(st.ents) THEN Get(st.ents) ELSE <<>>),
                     file |-> f]
               [] op = "getByID" ->
                    [res |-> getByIDResult(st.ents, id), file |-> f]
               [] op = "update" ->
                    IF ~IsSome(st.ents) \/ notFound(entityIndex)
                    THEN [res |-> Null, file |-> f]
                    ELSE [res |-> Entity(new),
                          file |-> written(WithCollection(st.all,
                                      setAt(Get(st.ents), entityIndex, new)))]
               [] op = "delete" ->
                    IF ~IsSome(st.ents) \/ notFound(entityIndex)
                    THEN [res |-> False, file |-> f]
                    ELSE [res |-> True,
                          file |-> written(WithCollection(st.all,
                                      splice(Get(st.ents), entityIndex)))]

\* C19: the two variants implement the same design. Started on the same file
\* with the same arguments and awaited, a create, getAll, getByID, update or
\* delete of either variant returns the same result and leaves the same file,
\* namely what SimpleDB's code computes; hence every sequence of awaited calls
\* gives the same results call by call and the same final file in both.
C19_VariantsAgree ==
    (last.op \in ReadOps \cup WriteOps /\ ~FailedOutside(last))
        => LET o == SimpleDBOutcome(last.pre, last.op,
                       IF last.op = "create" THEN last.data.id ELSE last.id,
                       last.data)
           IN  /\ last.res = o.res
               /\ file = o.file

C19_Witness ==
    /\ db = "AsyncJSONFileBasedDB"
    /\ last.op = "update" /\ Mutated(last) /\ last.nreads = 2
    /\ OtherCollection \in DOMAIN DocumentOf(last.pre)
    /\ file = SimpleDBOutcome(last.pre, "update", last.id, last.data).file
    /\ file # last.pre

\* C20: initializeDB replaces the whole document with the empty one. Once it
\* has completed with no other call running, the file exists and holds no
\* collection at all, whatever it held or lacked before, and a getAll that
\* follows returns the empty list.
C20_InitializeEmpties ==
    /\ (last.op = "initializeDB" /\ last.res.tag # "error")
          => /\ last.res.tag = "undefined"
             /\ last.nreads = 0 /\ last.nwrites = 1
             /\ file.exists
             /\ file.text.kind = "json"
             /\ DOMAIN file.text.doc = {}
    /\ (ReadAfter("initializeDB") /\ last.op = "getAll")
          => last.res = [tag |-> "list", recs |-> <<>>]

C20_Witness ==
    /\ ReadAfter("initializeDB") /\ last.op = "getAll"
    /\ StoredEntities(prev.pre) # <<>>
    /\ OtherCollection \in DOMAIN DocumentOf(prev.pre)
    /\ DocumentOf(prev.pre)[OtherCollection] # <<>>
    /\ file.exists /\ DOMAIN DocumentOf(file) = {}
    /\ last.res.recs = <<>>

====
